---- MODULE Spec2Model ----
(***************************************************************************)
(* A model of pytorchgui.Graph (src/pytorchgui/pytorchgui.py): the         *)
(* identifier generator alphabetical_ids / str_lessthan, the registration  *)
(* pass of Graph.__init__, Graph.instrumented_forward with its forward     *)
(* hooks, Graph.serialize, and the request handlers of start_graph_server. *)
(*                                                                         *)
(* A Python str is a sequence of code points, so "a" is <<97>>.            *)
(***************************************************************************)
EXTENDS Integers, Sequences, FiniteSets, TLC

\* ------------------------------------------------------------- bounds
\* draws taken from one generator in SpecIds
MaxDraws == 30
\* largest bijective base-26 value of a `prev` argument tried in SpecIds
MaxPrev == 4
\* entries of one module's _modules / _parameters
MaxChildren == 2
MaxOwnParams == 1
\* instrumented_forward calls on one Graph
MaxCalls == 2
\* positional inputs of one instrumented_forward call
MaxInputs == 1
\* operations and submodule calls executed by one forward computation
MaxOps == 2
MaxSubCalls == 1

\* ------------------------------------------------------------- strings
\* string.ascii_lowercase: the code points of 'a'..'z'
ascii_lowercase == [i \in 1..26 |-> 96 + i]

\* ord() of a character: characters are their code points
ord(c) == c

\* the Python object None, and the empty str that is alphabetical_ids' default
None == <<-1>>
EmptyStr == <<>>

\* str(x) for x a str or None: str(None) is the four characters 'None'
str(x) == IF x = None THEN <<78, 111, 110, 101>> ELSE x

\* the accumulation loop of str_lessthan over reversed(s)
RECURSIVE str_val(_, _)
str_val(s, i) ==
    IF i >= Len(s) THEN 0
    ELSE (ord(s[Len(s) - i]) - ord(ascii_lowercase[1]) + 1) * (26 ^ i) + str_val(s, i + 1)

str_lessthan_off_by_one(str1, str2) == str_val(str1, 0) <= str_val(str2, 0)

str_lessthan(str1, str2) == str_val(str1, 0) < str_val(str2, 0)

\* ------------------------------------------------------------- generator
\* A suspended alphabetical_ids generator is the list of its frames: frame 1
\* is the generator itself, frame d+1 the generator of its `for rest in
\* alphabetical_ids()` loop.  A frame holds the loop it is in (1: line 253,
\* 2: line 258), the index of the next char of that loop, and the current
\* `rest`.
NewFrame == [loop |-> 1, i |-> 1, rest |-> EmptyStr]


FrameAt(frames, d) == IF d > Len(frames) THEN NewFrame ELSE frames[d]

SetFrame(frames, d, f) ==
    IF d > Len(frames) THEN Append(frames, f) ELSE [frames EXCEPT ![d] = f]

\* line 259 with the operands swapped
concat_swapped(rest, char) == <<char>> \o rest

\* res = rest + char (line 259; line 255 is the case rest = '')
concat(rest, char) == rest \o <<char>>

\* the chars of one `for char in ascii_lowercase` loop, from index i on, whose
\* candidate rest + char passes the test of lines 254 / 260
Passing(prev, rest, i) ==
    {j \in i..Len(ascii_lowercase) :
        str_lessthan(str(prev), str(concat(rest, ascii_lowercase[j])))}

Min(S) == CHOOSE x \in S : \A y \in S : x <= y

\* resume frame d (whose prev argument is `prev`) until its next yield: the
\* first passing char of the current loop, or else the loop is exhausted and
\* the next `rest` is drawn from the inner generator (line 257)
RECURSIVE resume(_, _, _)
resume(frames, d, prev) ==
    LET f    == FrameAt(frames, d)
        hits == Passing(prev, f.rest, f.i)
    IN  IF hits # {}
        THEN [frames |-> SetFrame(frames, d, [f EXCEPT !.i = Min(hits) + 1]),
              val    |-> concat(f.rest, ascii_lowercase[Min(hits)])]
        ELSE LET inner == resume(SetFrame(frames, d, f), d + 1, EmptyStr)
             IN  resume([inner.frames EXCEPT
                            ![d] = [loop |-> 2, i |-> 1, rest |-> inner.val]],
                        d, prev)

\* alphabetical_ids called without its argument
alphabetical_ids_from_start(prev) == [prev |-> EmptyStr, frames |-> <<>>]

\* alphabetical_ids(prev): a generator that has not run yet (line 248)
alphabetical_ids(prev) == [prev |-> prev, frames |-> <<>>]

\* next(gen): the generator after the draw, and the identifier drawn
next(gen) ==
    LET r == resume(gen.frames, 1, gen.prev)
    IN  [gen |-> [gen EXCEPT !.frames = r.frames], val |-> r.val]

\* ------------------------------------------------------------- dicts
\* a Python dict is a function; d[k] = v adds or overwrites a key
EmptyDict == <<>>

Put(d, k, v) == [x \in (DOMAIN d) \cup {k} |-> IF x = k THEN v ELSE d[x]]

Values(d) == {d[k] : k \in DOMAIN d}

Range(s) == {s[i] : i \in 1..Len(s)}

SeqsUpTo(S, n) == UNION {[1..k -> S] : k \in 0..n}

\* ------------------------------------------------------------- the torch model
\* Objects are triples <<type name, call that created it, number>>; modules
\* and parameters exist before the Graph does (call 0).
Mods == 1..3
Params == 1..2
Root == 1

Mod(i) == <<"Net", 0, i>>
Param(j) == <<"Parameter", 0, j>>

\* the keys of the k-th entry of a module's _modules and _parameters
ChildKeys == <<"c1", "c2", "c3", "c4">>
ParamKeys == <<"w1", "w2", "w3", "w4">>

VARIABLES
    ids_gen, ids_drawn,   \* SpecIds: a generator and what was drawn from it
    model,                \* module number -> [modules, parameters]: the
                          \* values of its _modules and _parameters, in order
    dataloader,           \* the dataloader argument of Graph.__init__
    pc,                   \* "new", "idle", "forward" or "failed"
    module_tree, module_to_id, param_to_id, functional_graph,
    id_gen, prev_id,      \* the fields of the Graph
    issued,               \* every identifier drawn for this Graph, as
                          \* <<call, identifier>>, in the order drawn
    call,                 \* instrumented_forward calls made so far
    args,                 \* number of positional inputs of the latest call
    inputs,               \* the input Variables of the latest call
    input_data,           \* their .data tensors
    batch,                \* the batches the latest call drew from the dataloader
    forward_hooks,        \* module -> the calls whose forward_hook is in
                          \* its _forward_hooks, in registration order
    env,                  \* call -> the variables its forward_hook closes
                          \* over: node_to_id, node_id_gen, activations
    stack,                \* the modules whose forward is executing
    autograd,             \* function node -> previous_functions and the
                          \* module that executed it
    subcalls,             \* submodule calls made by this forward
    ret,                  \* how the latest call ended, and its return value
    written,              \* for each key of functional_graph: the call during
                          \* which the entry was written, the closure that
                          \* wrote it, the node it describes and the place
                          \* of the code that wrote it
    serialized,           \* <<the dict the latest serialize() dumped>>, or <<>>
    requests,             \* start_graph_server: request -> its endpoint and
                          \* where its handler is
    running               \* the requests whose handler is being executed

graph_vars == <<module_tree, module_to_id, param_to_id, functional_graph,
                id_gen, prev_id>>

run_vars == <<call, args, inputs, input_data, batch, forward_hooks, env, stack,
              autograd, subcalls, ret, written, serialized>>

server_vars == <<requests, running>>

vars == <<ids_gen, ids_drawn, model, dataloader, pc, graph_vars, issued, run_vars,
          server_vars>>

\* no server has been started for the Graph
NoServer == requests = <<>> /\ running = {}

\* torch.nn.Module.parameters(): every parameter of the tree once, a
\* module's own before its children's; acc is the memo
RECURSIVE own_parameters(_, _, _)
own_parameters(ps, i, acc) ==
    IF i > Len(ps) THEN acc
    ELSE own_parameters(ps, i + 1,
            IF Param(ps[i]) \in Range(acc) THEN acc ELSE Append(acc, Param(ps[i])))

RECURSIVE parameters(_, _, _)
RECURSIVE children_parameters(_, _, _, _)
parameters(mdl, m, acc) ==
    children_parameters(mdl, mdl[m].modules, 1,
                        own_parameters(mdl[m].parameters, 1, acc))

children_parameters(mdl, cs, i, acc) ==
    IF i > Len(cs) THEN acc
    ELSE children_parameters(mdl, cs, i + 1,
            IF \E j \in 1..(i - 1) : cs[j] = cs[i] THEN acc
            ELSE parameters(mdl, cs[i], acc))

\* ------------------------------------------------------------- Graph.__init__
\* The constructor's state while it runs: the fields of self, the local
\* unique_param_ids, and whether a KeyError has been raised.
NewGraph ==
    [module_tree |-> EmptyDict, module_to_id |-> EmptyDict,
     param_to_id |-> EmptyDict, id_gen |-> alphabetical_ids(EmptyStr),
     prev_id |-> None, unique_param_ids |-> {}, issued |-> <<>>,
     raised |-> FALSE]

\* lines 37-41
RECURSIVE register_parameters(_, _, _)
register_parameters(g, ps, i) ==
    IF i > Len(ps) THEN g
    ELSE LET r == next(g.id_gen)
         IN  register_parameters(
                [g EXCEPT !.id_gen = r.gen,
                          !.prev_id = r.val,
                          !.param_to_id = Put(@, ps[i], r.val),
                          !.unique_param_ids = @ \cup {r.val},
                          !.issued = Append(@, <<0, r.val>>)],
                ps, i + 1)

\* lines 56-57: unique_param_ids.remove(param_id) for every item of the
\* submodule's params, in key order; set.remove raises KeyError on a missing
\* element
RECURSIVE remove_claimed(_, _, _)
remove_claimed(g, params, i) ==
    IF i > Len(ParamKeys) \/ g.raised THEN g
    ELSE IF ParamKeys[i] \notin DOMAIN params THEN remove_claimed(g, params, i + 1)
    ELSE IF params[ParamKeys[i]] \notin g.unique_param_ids
         THEN [g EXCEPT !.raised = TRUE]
         ELSE remove_claimed(
                [g EXCEPT !.unique_param_ids = @ \ {params[ParamKeys[i]]}],
                params, i + 1)

\* lines 59-62 without the test of line 61
claim_own_unconditional(g, module_id, ps, i) ==
    [g EXCEPT !.module_tree[module_id].params =
                  Put(@, ParamKeys[i], g.param_to_id[Param(ps[i])])]

\* lines 60-62, for the i-th item of module._parameters
claim_own(g, module_id, ps, i) ==
    IF g.param_to_id[Param(ps[i])] \in g.unique_param_ids
    THEN [g EXCEPT !.module_tree[module_id].params =
                      Put(@, ParamKeys[i], g.param_to_id[Param(ps[i])])]
    ELSE g

\* lines 59-62
RECURSIVE register_own_params(_, _, _, _)
register_own_params(g, module_id, ps, i) ==
    IF i > Len(ps) \/ g.raised THEN g
    ELSE register_own_params(claim_own(g, module_id, ps, i), module_id, ps, i + 1)

\* lines 43-64: returns the constructor's state and the module's identifier
RECURSIVE register_submodules(_, _, _)
RECURSIVE register_children(_, _, _, _, _)
register_submodules(g, mdl, m) ==
    LET r  == next(g.id_gen)
        module_id == r.val
        g1 == [g EXCEPT !.id_gen = r.gen,
                        !.prev_id = module_id,
                        !.module_to_id = Put(@, Mod(m), module_id),
                        !.module_tree = Put(@, module_id,
                              [children |-> EmptyDict, params |-> EmptyDict]),
                        !.issued = Append(@, <<0, module_id>>)]
        g2 == register_children(g1, mdl, module_id, mdl[m].modules, 1)
    IN  [g |-> register_own_params(g2, module_id, mdl[m].parameters, 1),
         id |-> module_id]

\* lines 53-57
register_children(g, mdl, module_id, cs, i) ==
    IF i > Len(cs) \/ g.raised THEN g
    ELSE LET sub == register_submodules(g, mdl, cs[i])
             g1  == [sub.g EXCEPT !.module_tree[module_id].children =
                                      Put(@, ChildKeys[i], sub.id)]
         IN  register_children(
                remove_claimed(g1, g1.module_tree[sub.id].params, 1),
                mdl, module_id, cs, i + 1)

\* lines 25-66 with the modules numbered by an allocator of their own
construct_two_allocators(mdl) ==
    register_submodules(
        [register_parameters(NewGraph, parameters(mdl, Root, <<>>), 1)
            EXCEPT !.id_gen = alphabetical_ids(EmptyStr)],
        mdl, Root).g

\* lines 25-66
construct(mdl) ==
    register_submodules(
        register_parameters(NewGraph, parameters(mdl, Root, <<>>), 1),
        mdl, Root).g

\* ------------------------------------------------------------- module trees
\* every module of Mods below the root
RECURSIVE Reachable(_, _)
Reachable(mdl, S) ==
    LET T == S \cup {c \in Mods : \E m \in S : c \in Range(mdl[m].modules)}
    IN  IF T = S THEN S ELSE Reachable(mdl, T)

\* The module trees over the modules 1..top and the parameters ps: children
\* have higher numbers than their parent (no cycles), and a module outside the
\* tree is empty.  A tree is a sequence over Mods.
RECURSIVE ChildLists(_, _)
ChildLists(m, top) ==
    IF m > Cardinality(Mods) THEN {<<>>}
    ELSE {<<s>> \o rest :
            s \in SeqsUpTo({c \in Mods : c > m /\ c <= top}, MaxChildren),
            rest \in ChildLists(m + 1, top)}

ParamLists(top, ps) ==
    {pl \in [Mods -> SeqsUpTo(ps, MaxOwnParams)] :
        \A m \in Mods : m > top => pl[m] = <<>>}

Models(top, ps) ==
    {mdl \in {[m \in Mods |-> [modules |-> cl[m], parameters |-> pl[m]]] :
                 cl \in ChildLists(1, top), pl \in ParamLists(top, ps)} :
        \A m \in Mods \ Reachable(mdl, {Root}) :
            mdl[m].parameters = <<>> /\ mdl[m].modules = <<>>}

\* ------------------------------------------------------------- actions
InitWorld(top, ps) ==
    /\ model \in Models(top, ps)
    /\ dataloader \in {"None", "single", "tuple"}
    /\ pc = "new"
    /\ module_tree = EmptyDict
    /\ module_to_id = EmptyDict
    /\ param_to_id = EmptyDict
    /\ functional_graph = EmptyDict
    /\ id_gen = alphabetical_ids(EmptyStr)
    /\ prev_id = None
    /\ issued = <<>>
    /\ call = 0
    /\ args = 0
    /\ inputs = <<>>
    /\ input_data = <<>>
    /\ batch = <<>>
    /\ forward_hooks = [m \in Mods |-> <<>>]
    /\ env = EmptyDict
    /\ stack = <<>>
    /\ autograd = EmptyDict
    /\ subcalls = 0
    /\ ret = [status |-> "none"]
    /\ written = EmptyDict
    /\ serialized = <<>>

\* Graph(module, dataloader), lines 25-66.  (A value an action uses several
\* times is bound by \E over a one-element set, which evaluates it once.)
Graph__init__ ==
    /\ pc = "new"
    /\ \E g \in {construct(model)} :
           IF g.raised
           THEN /\ pc' = "failed"
                /\ UNCHANGED <<graph_vars, issued>>
           ELSE /\ pc' = "idle"
                /\ module_tree' = g.module_tree
                /\ module_to_id' = g.module_to_id
                /\ param_to_id' = g.param_to_id
                /\ id_gen' = g.id_gen
                /\ prev_id' = g.prev_id
                /\ issued' = g.issued
                /\ UNCHANGED functional_graph
    /\ UNCHANGED <<ids_gen, ids_drawn, model, dataloader, run_vars>>

\* ------------------------------------------------------------- tensors
\* A tensor is <<type name, call, number>>; every tensor has the same size.
TensorSize == <<2, 3>>

type_name(x) == x[1]

Variable(c, i) == <<"Variable", c, i>>

\* the Variable's creator when the Variable is a leaf
NoneCreator == <<"NoneType", 0, 0>>

\* the batch next(dataloader.__iter__()) gives call c: (inputs, targets),
\* inputs one tensor or a tuple of MaxInputs tensors
next_batch(dl, c) ==
    [inputs  |-> [tuple |-> dl = "tuple",
                  items |-> IF dl = "tuple"
                            THEN [i \in 1..MaxInputs |-> <<"FloatTensor", c, i>>]
                            ELSE IF dl = "single" THEN <<<<"FloatTensor", c, 1>>>>
                            ELSE <<>>],
     targets |-> <<"LongTensor", c, 0>>]

\* ------------------------------------------------------------- forward_hook
\* What a forward_hook closure works on: self.functional_graph, the closures'
\* variables (env), and the log of identifiers drawn.

\* line 88: dep is a node object and the keys of functional_graph are str
in_functional_graph(dep, fg) == FALSE

\* lines 75-91
RECURSIVE fill_functional_graph(_, _, _, _)
RECURSIVE fill_dependencies(_, _, _, _, _, _)
fill_functional_graph(h, k, node, parent_module) ==
    IF node \in DOMAIN h.env[k].node_to_id THEN h
    ELSE LET r  == next(h.env[k].node_id_gen)
             node_id == r.val
             h1 == [h EXCEPT
                      !.env[k].node_id_gen = r.gen,
                      !.env[k].node_to_id = Put(@, node, node_id),
                      !.fg = Put(@, node_id,
                                 [type |-> <<type_name(node)>>,
                                  dependencies |-> {},
                                  parent_module |-> module_to_id[parent_module]]),
                      !.issued = Append(@, <<k, node_id>>),
                      !.written = Put(@, node_id,
                                      [call |-> call, closure |-> k,
                                       node |-> node, as |-> "node"])]
         IN  IF node \in DOMAIN autograd
             THEN fill_dependencies(h1, k, node_id,
                                    autograd[node].previous_functions, 1,
                                    parent_module)
             ELSE h1

\* lines 87-91
fill_dependencies(h, k, node_id, deps, i, parent_module) ==
    IF i > Len(deps) THEN h
    ELSE LET h1 == IF ~in_functional_graph(deps[i], h.fg)
                   THEN fill_functional_graph(h, k, deps[i], parent_module)
                   ELSE h
         IN  fill_dependencies(
                [h1 EXCEPT !.fg[node_id].dependencies =
                               @ \cup {h1.env[k].node_to_id[deps[i]]}],
                k, node_id, deps, i + 1, parent_module)

\* lines 93-99, for the closure of call k
forward_hook(h, k, module, creator) ==
    fill_functional_graph(
        [h EXCEPT !.env[k].activations =
                      Put(@, module_to_id[module], [output |-> creator])],
        k, creator, module)

\* Module.__call__ runs the hooks of module._forward_hooks in order
RECURSIVE run_hooks(_, _, _, _, _)
run_hooks(h, ks, i, module, creator) ==
    IF i > Len(ks) THEN h
    ELSE run_hooks(forward_hook(h, ks[i], module, creator), ks, i + 1, module, creator)

\* ------------------------------------------------------------- instrumented_forward
\* self.prev_id assigned the latest identifier drawn, as lines 39 and 45 do
prev_id_recorded(prev, drawn) ==
    IF drawn = <<>> THEN prev ELSE drawn[Len(drawn)][2]

\* self.prev_id after the identifiers `drawn` have been drawn for this Graph:
\* lines 68-145 read it (line 72) and never assign it
prev_id_after(prev, drawn) == prev

\* lines 101-102 with the dataloader test dropped
missing_input_unchecked(n, dl) == FALSE

\* lines 101-102
missing_input(n, dl) == n = 0 /\ dl = "None"

\* lines 105-109: the tensors the call wraps in Variables
batch_inputs(b) == b.inputs.items

\* line 70
merged(d1, d2) ==
    [x \in (DOMAIN d1) \cup (DOMAIN d2) |-> IF x \in DOMAIN d2 THEN d2[x] ELSE d1[x]]

\* line 69 left out: the previous call's dict is kept
reset_functional_graph_skipped(fg) == fg

\* line 69
reset_functional_graph(fg) == EmptyDict

\* lines 111-119
RECURSIVE register_inputs(_, _, _, _, _)
register_inputs(h, k, ins, data, i) ==
    IF i > Len(ins) THEN h
    ELSE LET r == next(h.env[k].node_id_gen)
         IN  register_inputs(
                [h EXCEPT
                   !.env[k].node_id_gen = r.gen,
                   !.env[k].node_to_id = Put(@, ins[i], r.val),
                   !.fg = Put(@, r.val,
                              [type |-> <<"Input: ", type_name(data[i]), TensorSize>>,
                               dependencies |-> {},
                               parent_module |-> None]),
                   !.issued = Append(@, <<k, r.val>>),
                   !.written = Put(@, r.val,
                                   [call |-> k, closure |-> k,
                                    node |-> ins[i], as |-> "input"])],
                k, ins, data, i + 1)

\* lines 138-139
remove_handles(hooks, k) ==
    [m \in Mods |-> SelectSeq(hooks[m], LAMBDA x : x # k)]

\* instrumented_forward(*inputs) with n positional inputs, lines 68-124: up
\* to the point where self.module.forward has been entered, or the raise of
\* line 103
instrumented_forward(n) ==
    /\ pc = "idle"
    /\ call < MaxCalls
    /\ call' = call + 1
    /\ args' = n
    /\ serialized' = <<>>
    /\ subcalls' = 0
    /\ autograd' = EmptyDict
    /\ IF missing_input(n, dataloader)
       THEN /\ functional_graph' = reset_functional_graph(functional_graph)
            /\ written' = reset_functional_graph(written)
            /\ ret' = [status |-> "raised", error |-> "no inputs"]
            /\ batch' = <<>>
            /\ UNCHANGED <<pc, issued, inputs, input_data, forward_hooks, env,
                           stack>>
       ELSE LET c    == call + 1
                b    == IF n = 0 THEN <<next_batch(dataloader, c)>> ELSE <<>>
                data == IF n = 0 THEN batch_inputs(b[1])
                        ELSE [i \in 1..n |-> <<"FloatTensor", c, i>>]
                ins  == [i \in 1..Len(data) |-> Variable(c, i)]
            IN  \E h \in {register_inputs(
                            [fg |-> reset_functional_graph(functional_graph),
                             env |-> Put(env, c,
                                 [node_to_id |-> merged(param_to_id, module_to_id),
                                  node_id_gen |-> alphabetical_ids(prev_id),
                                  activations |-> EmptyDict]),
                             issued |-> issued,
                             written |-> reset_functional_graph(written)],
                            c, ins, data, 1)} :
                /\ batch' = b
                /\ input_data' = data
                /\ inputs' = ins
                /\ functional_graph' = h.fg
                /\ env' = h.env
                /\ issued' = h.issued
                /\ written' = h.written
                /\ forward_hooks' =
                       [m \in Mods |-> IF Mod(m) \in DOMAIN module_to_id
                                       THEN Append(forward_hooks[m], c)
                                       ELSE forward_hooks[m]]
                /\ stack' = <<Root>>
                /\ pc' = "forward"
                /\ ret' = [status |-> "none"]
    /\ prev_id' = prev_id_after(prev_id, issued')
    /\ UNCHANGED <<ids_gen, ids_drawn, model, dataloader, module_tree,
                   module_to_id, param_to_id, id_gen>>

\* ------------------------------------------------------------- the forward computation
\* the Variables an operation of the running module can take as operands:
\* the inputs and the results of earlier operations, in the order they came
\* to be, and the module's own parameters
Activations == inputs \o [k \in 1..Cardinality(DOMAIN autograd) |-> <<"Addmm", call, k>>]

OwnParams == {Param(j) : j \in Range(model[stack[Len(stack)]].parameters)}

\* the operand lists tried: one activation, an activation with a parameter,
\* or two activations
OperandLists ==
    {<<Activations[i]>> : i \in 1..Len(Activations)}
      \cup {<<Activations[i], p>> : i \in 1..Len(Activations), p \in OwnParams}
      \cup UNION {{<<Activations[i], Activations[j]>> : i \in 1..(j - 1)} :
                      j \in 1..Len(Activations)}

\* torch executes an operation inside the running forward: a new Function
\* node whose previous_functions are its one or two operands
apply_function ==
    /\ pc = "forward"
    /\ Cardinality(DOMAIN autograd) < MaxOps
    /\ \E deps \in OperandLists :
          autograd' = Put(autograd, <<"Addmm", call, Cardinality(DOMAIN autograd) + 1>>,
                          [previous_functions |-> deps,
                           module |-> stack[Len(stack)]])
    /\ UNCHANGED <<ids_gen, ids_drawn, model, dataloader, pc, graph_vars, issued,
                   call, args, inputs, input_data, batch, forward_hooks, env,
                   stack, subcalls, ret, written, serialized>>

\* the running forward calls one of its submodules
call_submodule ==
    /\ pc = "forward"
    /\ subcalls < MaxSubCalls
    /\ \E child \in Range(model[stack[Len(stack)]].modules) :
          stack' = Append(stack, child)
    /\ subcalls' = subcalls + 1
    /\ UNCHANGED <<ids_gen, ids_drawn, model, dataloader, pc, graph_vars, issued,
                   call, args, inputs, input_data, batch, forward_hooks, env,
                   autograd, ret, written, serialized>>

\* what can have created the Variable a forward returns: the latest
\* operation, or nothing when it returns a leaf Variable
Creators ==
    {<<"Addmm", call, k>> : k \in {Cardinality(DOMAIN autograd)} \ {0}}
      \cup {NoneCreator}

\* a submodule's forward returns and Module.__call__ runs its forward hooks
submodule_returns ==
    /\ pc = "forward"
    /\ Len(stack) > 1
    /\ \E creator \in Creators :
          \E h \in {run_hooks([fg |-> functional_graph, env |-> env,
                               issued |-> issued, written |-> written],
                              forward_hooks[stack[Len(stack)]], 1,
                              Mod(stack[Len(stack)]), creator)} :
              /\ functional_graph' = h.fg
              /\ written' = h.written
              /\ env' = h.env
              /\ issued' = h.issued
    /\ stack' = SubSeq(stack, 1, Len(stack) - 1)
    /\ prev_id' = prev_id_after(prev_id, issued')
    /\ UNCHANGED <<ids_gen, ids_drawn, model, dataloader, pc, module_tree,
                   module_to_id, param_to_id, id_gen, call, args, inputs,
                   input_data, batch, forward_hooks, autograd, subcalls, ret,
                   serialized>>

\* self.module.forward returns res: lines 124-145
forward_returns ==
    /\ pc = "forward"
    /\ Len(stack) = 1
    /\ \E creator \in Creators :
          \E h1 \in {forward_hook([fg |-> functional_graph, env |-> env,
                                    issued |-> issued, written |-> written],
                                   call, Mod(Root), creator)} :
          \E r \in {next(h1.env[call].node_id_gen)} :
          LET res == Variable(call, 0)
          IN  /\ functional_graph' =
                     Put(h1.fg, r.val,
                         [type |-> <<"Output: ", "FloatTensor", TensorSize>>,
                          dependencies |-> {h1.env[call].node_to_id[creator]},
                          parent_module |-> module_to_id[Mod(Root)]])
              /\ issued' = Append(h1.issued, <<call, r.val>>)
              /\ written' = Put(h1.written, r.val,
                                [call |-> call, closure |-> call,
                                 node |-> res, as |-> "output"])
              /\ ret' = [status |-> "returned",
                         activations |-> h1.env[call].activations,
                         result |-> res]
              /\ env' = [k \in (DOMAIN h1.env) \ {call} |-> h1.env[k]]
    /\ forward_hooks' = remove_handles(forward_hooks, call)
    /\ stack' = <<>>
    /\ pc' = "idle"
    /\ prev_id' = prev_id_after(prev_id, issued')
    /\ UNCHANGED <<ids_gen, ids_drawn, model, dataloader, module_tree,
                   module_to_id, param_to_id, id_gen, call, args, inputs,
                   input_data, batch, autograd, subcalls, serialized>>

\* What stays of a closure whose call has ended with its hooks still
\* attached: the objects of that call are out of reach of later forward
\* computations, so their node_to_id entries can never be looked up again, and
\* nothing reads its activations; both are dropped.
retained(e) ==
    [node_to_id  |-> [x \in {y \in DOMAIN e.node_to_id : y[2] = 0} |-> e.node_to_id[x]],
     node_id_gen |-> e.node_id_gen,
     activations |-> EmptyDict]

\* an exception leaves self.module.forward (line 124), raised by the forward
\* computation or by a forward hook (lines 94-97): instrumented_forward is
\* left at line 124
forward_raises ==
    /\ pc = "forward"
    /\ ret' = [status |-> "raised", error |-> "forward"]
    /\ env' = [k \in DOMAIN env |-> retained(env[k])]
    /\ stack' = <<>>
    /\ pc' = "idle"
    /\ UNCHANGED <<ids_gen, ids_drawn, model, dataloader, graph_vars, issued,
                   call, args, inputs, input_data, batch, forward_hooks,
                   autograd, subcalls, written, serialized>>

\* ------------------------------------------------------------- serialize
\* line 169 tagging by what the entry describes
function_tag_by_subtype(func_dict) ==
    IF func_dict.type[1] = "Input: " THEN "Input"
    ELSE IF func_dict.type[1] = "Output: " THEN "Output" ELSE "Function"

\* line 169
function_tag(func_dict) == "Function"

\* lines 148-173: the dict handed to json.dumps
serialize_dict ==
    LET modules == [id \in Values(module_to_id) |->
                      [type |-> "Module",
                       subtype |-> type_name(CHOOSE m \in DOMAIN module_to_id :
                                                 module_to_id[m] = id),
                       params |-> module_tree[id].params,
                       children |-> module_tree[id].children]]
        params  == [id \in Values(param_to_id) |->
                      [type |-> "Parameter",
                       subtype |-> "FloatTensor",
                       shape |-> TensorSize]]
        funcs   == [id \in DOMAIN functional_graph |->
                      [type |-> function_tag(functional_graph[id]),
                       subtype |-> functional_graph[id].type,
                       dependencies |-> functional_graph[id].dependencies,
                       parent_module |-> functional_graph[id].parent_module]]
    IN  merged(merged(modules, params), funcs)

\* serialize(), lines 147-175
serialize ==
    /\ pc = "idle"
    /\ serialized = <<>>
    /\ serialized' = <<serialize_dict>>
    /\ UNCHANGED <<ids_gen, ids_drawn, model, dataloader, pc, graph_vars, issued,
                   call, args, inputs, input_data, batch, forward_hooks, env,
                   stack, autograd, subcalls, ret, written>>

\* ------------------------------------------------------------- Spec
\* the module trees of the lifecycle specification: the root and one more
\* module, and one parameter
RunMods == {1, 2}
RunParams == {1}

Init ==
    /\ InitWorld(Cardinality(RunMods), RunParams)
    /\ ids_gen = alphabetical_ids(EmptyStr)
    /\ ids_drawn = <<>>
    /\ NoServer

Next ==
    \/ Graph__init__ /\ UNCHANGED server_vars
    \/ \E n \in 0..MaxInputs : instrumented_forward(n) /\ UNCHANGED server_vars
    \/ apply_function /\ UNCHANGED server_vars
    \/ call_submodule /\ UNCHANGED server_vars
    \/ submodule_returns /\ UNCHANGED server_vars
    \/ forward_returns /\ UNCHANGED server_vars
    \/ forward_raises /\ UNCHANGED server_vars
    \/ serialize /\ UNCHANGED server_vars

Spec == Init /\ [][Next]_vars

\* ------------------------------------------------------------- SpecIds
\* the bijective base-26 numeral of n >= 1 (digits a=1..z=26), as a str
RECURSIVE Numeral(_)
Numeral(n) ==
    IF n = 0 THEN <<>>
    ELSE LET d == ((n - 1) % 26) + 1
         IN  Numeral((n - d) \div 26) \o <<96 + d>>

PrevArgs == {EmptyStr} \cup {Numeral(n) : n \in 1..MaxPrev}
              \cup {Numeral(n) : n \in {26, 27, 52, 702}}

InitIds ==
    /\ \E p \in PrevArgs : ids_gen = alphabetical_ids(p)
    /\ ids_drawn = <<>>
    /\ model = [m \in Mods |-> [modules |-> <<>>, parameters |-> <<>>]]
    /\ dataloader = "None"
    /\ pc = "ids"
    /\ module_tree = EmptyDict
    /\ module_to_id = EmptyDict
    /\ param_to_id = EmptyDict
    /\ functional_graph = EmptyDict
    /\ id_gen = alphabetical_ids(EmptyStr)
    /\ prev_id = None
    /\ issued = <<>>
    /\ call = 0
    /\ args = 0
    /\ inputs = <<>>
    /\ input_data = <<>>
    /\ batch = <<>>
    /\ forward_hooks = [m \in Mods |-> <<>>]
    /\ env = EmptyDict
    /\ stack = <<>>
    /\ autograd = EmptyDict
    /\ subcalls = 0
    /\ ret = [status |-> "none"]
    /\ written = EmptyDict
    /\ serialized = <<>>
    /\ NoServer

\* next() on the generator
Draw ==
    /\ Len(ids_drawn) < MaxDraws
    /\ \E r \in {next(ids_gen)} :
           /\ ids_gen' = r.gen
           /\ ids_drawn' = Append(ids_drawn, r.val)
    /\ UNCHANGED <<model, dataloader, pc, graph_vars, issued, run_vars,
                   server_vars>>

NextIds == Draw

SpecIds == InitIds /\ [][NextIds]_vars

\* ------------------------------------------------------------- SpecTree
InitTree ==
    /\ InitWorld(Cardinality(Mods), Params)
    /\ dataloader = "None"
    /\ ids_gen = alphabetical_ids(EmptyStr)
    /\ ids_drawn = <<>>
    /\ NoServer

NextTree == Graph__init__ /\ UNCHANGED server_vars

SpecTree == InitTree /\ [][NextTree]_vars
\* ------------------------------------------------------------- start_graph_server
\* requests the server has received and not yet answered at one time
MaxRequests == 2

\* the routes of lines 220, 227 and 231
Endpoints == {"index", "graph_spec", "instrumented_forward"}

\* every handler on a thread of its own
loop_idle_always(handlers) == TRUE

\* app.run (line 245) serves with one event loop in one process: the loop's
\* thread executes one handler coroutine at a time, from its start or from
\* the await it is suspended at up to its next await or its end, and takes
\* another only when no handler is being executed
loop_idle(handlers) == handlers = {}

Answer(r, how) == requests' = [requests EXCEPT ![r].at = how]

\* the loop starts the handler of a received request
dispatch(r) ==
    /\ pc \notin {"new", "failed"}
    /\ loop_idle(running)
    /\ requests[r].at = "received"
    /\ Answer(r, "handler")
    /\ running' = running \cup {r}
    /\ UNCHANGED <<ids_gen, ids_drawn, model, dataloader, pc, graph_vars, issued,
                   run_vars>>

\* index, lines 221-225: the handler is suspended at `await response.file`
index_awaits(r) ==
    /\ r \in running
    /\ requests[r] = [endpoint |-> "index", at |-> "handler"]
    /\ Answer(r, "awaiting")
    /\ running' = running \ {r}
    /\ UNCHANGED <<ids_gen, ids_drawn, model, dataloader, pc, graph_vars, issued,
                   run_vars>>

\* the file has been read: the loop resumes the handler, which returns
index_resumes(r) ==
    /\ loop_idle(running)
    /\ requests[r] = [endpoint |-> "index", at |-> "awaiting"]
    /\ Answer(r, "done")
    /\ UNCHANGED <<ids_gen, ids_drawn, model, dataloader, pc, graph_vars, issued,
                   run_vars, running>>

\* graph_spec, lines 228-229: response.text(graph.serialize())
graph_spec(r) ==
    /\ r \in running
    /\ requests[r] = [endpoint |-> "graph_spec", at |-> "handler"]
    /\ serialized' = <<serialize_dict>>
    /\ Answer(r, "done")
    /\ running' = running \ {r}
    /\ UNCHANGED <<ids_gen, ids_drawn, model, dataloader, pc, graph_vars, issued,
                   call, args, inputs, input_data, batch, forward_hooks, env,
                   stack, autograd, subcalls, ret, written>>

\* activations, line 233: graph.instrumented_forward() is entered, without
\* inputs; the exception of line 103 ends the handler
activations_calls(r) ==
    /\ r \in running
    /\ requests[r] = [endpoint |-> "instrumented_forward", at |-> "handler"]
    /\ instrumented_forward(0)
    /\ IF pc' = "forward"
       THEN Answer(r, "forward") /\ UNCHANGED running
       ELSE Answer(r, "error") /\ running' = running \ {r}

\* the forward computation of line 124, inside the handler
activations_forward(r) ==
    /\ r \in running
    /\ requests[r].at = "forward"
    /\ \/ apply_function
       \/ call_submodule
       \/ submodule_returns
    /\ UNCHANGED server_vars

\* instrumented_forward returns; lines 234-243 build the response
activations_responds(r) ==
    /\ r \in running
    /\ requests[r].at = "forward"
    /\ forward_returns
    /\ Answer(r, "done")
    /\ running' = running \ {r}

\* an exception leaves graph.instrumented_forward() and the handler
activations_fails(r) ==
    /\ r \in running
    /\ requests[r].at = "forward"
    /\ forward_raises
    /\ Answer(r, "error")
    /\ running' = running \ {r}

\* a constructed or yet to be constructed Graph and MaxRequests requests
\* received together
InitServer ==
    /\ InitWorld(Cardinality(RunMods), RunParams)
    /\ ids_gen = alphabetical_ids(EmptyStr)
    /\ ids_drawn = <<>>
    /\ requests \in [1..MaxRequests ->
                        {[endpoint |-> e, at |-> "received"] : e \in Endpoints}]
    /\ running = {}

NextServer ==
    \/ Graph__init__ /\ UNCHANGED server_vars
    \/ \E r \in 1..MaxRequests :
          \/ dispatch(r)
          \/ index_awaits(r)
          \/ index_resumes(r)
          \/ graph_spec(r)
          \/ activations_calls(r)
          \/ activations_forward(r)
          \/ activations_responds(r)
          \/ activations_fails(r)

SpecServer == InitServer /\ [][NextServer]_vars

\* ------------------------------------------------------------- properties
Id(e) == e[2]
CallOf(e) == e[1]

\* the bijective base-26 value of an identifier, most significant digit first
RECURSIVE Base26(_)
Base26(id) ==
    IF id = <<>> THEN 0
    ELSE 26 * Base26(SubSeq(id, 1, Len(id) - 1)) + (id[Len(id)] - 96)

Idle == pc = "idle"
Returned == pc = "idle" /\ ret.status = "returned"
Raised == pc = "idle" /\ ret.status = "raised"

\* C1: after an instrumented_forward call has returned or raised, no module
\* of the model has a forward hook left.
C1_NoResidualHooks ==
    (Idle /\ call > 0) => \A m \in Mods : forward_hooks[m] = <<>>

\* C2: the n-th identifier drawn from alphabetical_ids() is the bijective
\* base-26 numeral of n, and x is drawn before y iff str_lessthan(x, y).
C2_Sequence ==
    ids_gen.prev = EmptyStr =>
        /\ \A k \in 1..Len(ids_drawn) : ids_drawn[k] = Numeral(k)
        /\ \A i, j \in 1..Len(ids_drawn) :
              (i < j) <=> str_lessthan(ids_drawn[i], ids_drawn[j])

C2_Witness ==
    /\ pc = "ids"
    /\ ids_gen.prev = EmptyStr
    /\ Len(ids_drawn) >= 28
    /\ ids_drawn[26] = <<122>>
    /\ ids_drawn[27] = <<97, 97>>

\* C3: alphabetical_ids(prev), prev the numeral of n, yields the numerals of
\* n+1, n+2, ... in this order: the successor of prev first, nothing skipped,
\* nothing less than or equal to prev.
C3_Resume ==
    ids_gen.prev # EmptyStr =>
        \E n \in 1..(26 * 27) :
            /\ ids_gen.prev = Numeral(n)
            /\ \A k \in 1..Len(ids_drawn) : ids_drawn[k] = Numeral(n + k)

C3_Witness ==
    /\ pc = "ids"
    /\ ids_gen.prev = <<122, 122>>
    /\ Len(ids_drawn) >= 2
    /\ ids_drawn[1] = <<97, 97, 97>>

\* The records of module_tree with the module each was made for, found from
\* the root's record along the children maps.
RECURSIVE Records(_, _)
Records(id, m) ==
    {<<id, m>>} \cup
    UNION {Records(module_tree[id].children[ChildKeys[i]], model[m].modules[i]) :
              i \in 1..Len(model[m].modules)}

AllRecords == Records(module_to_id[Mod(Root)], Root)

RecordsOf(m) == {r[1] : r \in {x \in AllRecords : x[2] = m}}

Owners(p) == {m \in Reachable(model, {Root}) : p \in Range(model[m].parameters)}

Holders(pid) == {id \in DOMAIN module_tree : pid \in Values(module_tree[id].params)}

ExactlyOneHolder ==
    \A pid \in Values(param_to_id) : Cardinality(Holders(pid)) = 1

\* C4 as claimed: every parameter identifier is in exactly one params map, and
\* a parameter owned by a module A and by a child B of A is in B's map and
\* not in A's.
C4_ChildHolds ==
    Idle =>
        /\ ExactlyOneHolder
        /\ \A a \in Reachable(model, {Root}) : \A b \in Range(model[a].modules) :
              \A p \in Range(model[a].parameters) \cap Range(model[b].parameters) :
                  /\ Holders(param_to_id[Param(p)]) \cap RecordsOf(a) = {}
                  /\ Holders(param_to_id[Param(p)]) \cap RecordsOf(b) # {}

\* C4 as amended: every parameter identifier is in exactly one params map; a
\* parameter owned by a module A and by a child B of A is never in A's map,
\* and it is in B's map when A and B are its only owners.
C4_Uniqueness ==
    Idle =>
        /\ ExactlyOneHolder
        /\ \A a \in Reachable(model, {Root}) : \A b \in Range(model[a].modules) :
              \A p \in Range(model[a].parameters) \cap Range(model[b].parameters) :
                  /\ Holders(param_to_id[Param(p)]) \cap RecordsOf(a) = {}
                  /\ Owners(p) = {a, b} =>
                        Holders(param_to_id[Param(p)]) \cap RecordsOf(b) # {}

C4_Witness ==
    /\ Idle
    /\ \E a \in Reachable(model, {Root}) : \E b \in Range(model[a].modules) :
          \E p \in Range(model[a].parameters) \cap Range(model[b].parameters) :
              /\ Owners(p) = {a, b}
              /\ Holders(param_to_id[Param(p)]) \subseteq RecordsOf(b)
              /\ Holders(param_to_id[Param(p)]) # {}

\* the identifiers a record of the serialized dict refers to
References(rec) ==
    (IF "dependencies" \in DOMAIN rec THEN rec.dependencies ELSE {})
      \cup (IF "children" \in DOMAIN rec THEN Values(rec.children) ELSE {})
      \cup (IF "params" \in DOMAIN rec THEN Values(rec.params) ELSE {})

\* C5: every identifier a record of the serialized dict refers to in its
\* dependencies, children or params is a key of the dict.
C5_ReferencesResolve ==
    serialized # <<>> =>
        \A id \in DOMAIN serialized[1] :
            References(serialized[1][id]) \subseteq DOMAIN serialized[1]

\* C6 as claimed: over the lifetime of the Graph identifiers are issued in
\* strictly increasing order, so none is issued twice.
C6_NeverReissued ==
    \A i, j \in 1..Len(issued) :
        i < j => Base26(Id(issued[i])) < Base26(Id(issued[j]))

\* C6 as amended: the identifiers issued during construction, followed by
\* those issued by the allocator of any one instrumented_forward call, are
\* strictly increasing; allocators of different calls are not ordered against
\* each other.
C6_IncreasingPerAllocator ==
    \A i, j \in 1..Len(issued) :
        (i < j /\ CallOf(issued[i]) \in {0, CallOf(issued[j])})
            => Base26(Id(issued[i])) < Base26(Id(issued[j]))

C6_Witness ==
    /\ Returned
    /\ call = 2
    /\ \E i, j \in 1..Len(issued) :
          /\ CallOf(issued[i]) = 1
          /\ CallOf(issued[j]) = 2
          /\ Id(issued[i]) = Id(issued[j])
    /\ Cardinality({i \in 1..Len(issued) : CallOf(issued[i]) = 2}) >= 3

\* C7: a call without inputs on a Graph without a dataloader raises with no
\* hook registered, no identifier drawn and the forward not entered; with a
\* dataloader it draws one batch and goes on with the batch's inputs only.
C7_MissingInput ==
    [][(call' = call + 1 /\ args' = 0) =>
          IF dataloader = "None"
          THEN /\ pc' = "idle"
               /\ ret'.status = "raised"
               /\ forward_hooks' = forward_hooks
               /\ issued' = issued
               /\ batch' = <<>>
               /\ stack' = <<>>
          ELSE /\ pc' = "forward"
               /\ Len(batch') = 1
               /\ input_data' = batch'[1].inputs.items
               /\ batch'[1].targets \notin Range(input_data')
               /\ Len(inputs') = Len(input_data')
               /\ Len(inputs') >= 1]_vars

C7_Witness ==
    /\ Raised
    /\ call = 2
    /\ args = 0
    /\ dataloader = "None"
    /\ ret.error = "no inputs"
    /\ \E i \in 1..Len(issued) : CallOf(issued[i]) = 1

\* the objects of the running or latest call that functional_graph can
\* describe: its inputs, the operations it executed, a leaf's absent creator
\* and its result
NodesOfCall ==
    Range(inputs) \cup (DOMAIN autograd) \cup {NoneCreator, Variable(call, 0)}

\* C8: after a successful call, every entry of functional_graph was written
\* during that call and describes an input, an executed operation or the
\* output of that call.
C8_NoStaleEntries ==
    Returned =>
        \A id \in DOMAIN functional_graph :
            /\ written[id].call = call
            /\ written[id].node \in NodesOfCall

C8_Witness ==
    /\ Returned
    /\ call = 2
    /\ \A m \in Mods : forward_hooks[m] = <<>>
    /\ Cardinality({i \in 1..Len(issued) : CallOf(issued[i]) = 1}) >
           Cardinality(DOMAIN functional_graph)
    /\ DOMAIN autograd # {}

\* C9 as claimed: the type tag of a serialized record names the kind of node:
\* Module, Parameter, Function, Input or Output.
C9_TagNamesKind ==
    serialized # <<>> =>
        \A id \in DOMAIN serialized[1] :
            serialized[1][id].type =
                IF id \in DOMAIN functional_graph
                THEN (IF written[id].as = "input" THEN "Input"
                      ELSE IF written[id].as = "output" THEN "Output"
                      ELSE "Function")
                ELSE IF id \in Values(param_to_id) THEN "Parameter" ELSE "Module"

\* C9 as amended: module records are tagged Module, parameter records
\* Parameter, and every record of the functional graph is tagged Function;
\* the records of input and output nodes are told apart by their subtype,
\* which starts with "Input: " or "Output: ".
C9_TagsAsWritten ==
    serialized # <<>> =>
        \A id \in DOMAIN serialized[1] :
            LET rec == serialized[1][id] IN
            IF id \in DOMAIN functional_graph
            THEN /\ rec.type = "Function"
                 /\ written[id].as = "input" <=> rec.subtype[1] = "Input: "
                 /\ written[id].as = "output" <=> rec.subtype[1] = "Output: "
            ELSE IF id \in Values(param_to_id) THEN rec.type = "Parameter"
            ELSE rec.type = "Module"

C9_Witness ==
    /\ serialized # <<>>
    /\ Returned
    /\ \E i, o, f \in DOMAIN functional_graph :
          /\ written[i].as = "input"
          /\ written[o].as = "output"
          /\ written[f].as = "node"
          /\ serialized[1][f].subtype = <<"Addmm">>
    /\ param_to_id # EmptyDict

\* C10: every module object has one identifier and one module_tree record:
\* the keys of module_tree are the values of module_to_id.
C10_OneRecordPerModule ==
    Idle =>
        /\ DOMAIN module_tree = Values(module_to_id)
        /\ Cardinality(DOMAIN module_tree) = Cardinality(DOMAIN module_to_id)

\* C11: after an instrumented_forward call was left by an exception, the
\* dict serialize() dumps has no Function record: nothing of the build that
\* never received its output node can be observed.
C11_NoPartialGraph ==
    (Raised /\ serialized # <<>>) =>
        \A id \in DOMAIN serialized[1] : serialized[1][id].type # "Function"

\* C12: once the Graph is constructed, no step of an instrumented_forward
\* call (entering it, a hook, its return, its failure) and no serialize call
\* changes module_tree, module_to_id, param_to_id or prev_id, and a serialize
\* call does not change functional_graph.
C12_Frame ==
    [][pc # "new" =>
          /\ module_tree' = module_tree
          /\ module_to_id' = module_to_id
          /\ param_to_id' = param_to_id
          /\ prev_id' = prev_id
          /\ (serialized' # serialized /\ serialized' # <<>>) =>
                 functional_graph' = functional_graph]_vars

\* a failed call, then a successful call that ran a submodule's hooks and
\* registered operations, then serialize
C12_Witness ==
    /\ Returned
    /\ call = 2
    /\ forward_hooks[Root] # <<>>
    /\ serialized # <<>>
    /\ param_to_id # EmptyDict
    /\ Cardinality(DOMAIN module_tree) > 1
    /\ \E id \in DOMAIN functional_graph : written[id].as = "node"

\* the keys of functional_graph whose entry describes the node
EntriesOf(node) == {id \in DOMAIN functional_graph : written[id].node = node}

\* C13: after a successful call every operation the forward executed has at
\* most one functional_graph entry, and wherever an entry of an operation
\* lists the identifier of an operand that is itself an operation, it is the
\* identifier of that operand's one entry.
C13_RegisteredOnce ==
    Returned =>
        \A node \in DOMAIN autograd :
            /\ Cardinality(EntriesOf(node)) <= 1
            /\ \A id \in EntriesOf(node) :
                  \A dep \in Range(autograd[node].previous_functions) \cap DOMAIN autograd :
                      /\ Cardinality(EntriesOf(dep)) = 1
                      /\ EntriesOf(dep) \subseteq functional_graph[id].dependencies

\* the same with no hook of an earlier call attached during the call
C13_RegisteredOnceWithoutLeak ==
    (\A m \in Mods : forward_hooks[m] = <<>>) => C13_RegisteredOnce

\* the identifiers assigned at construction
ConstructionIds == (DOMAIN module_tree) \cup Values(module_to_id) \cup Values(param_to_id)

\* C14: every identifier drawn during an instrumented_forward call, by any
\* closure, is greater in bijective base-26 than every identifier assigned at
\* construction, and no key of functional_graph is a key of module_tree or a
\* value of param_to_id.
C14_AboveConstruction ==
    /\ \A i \in 1..Len(issued) :
          CallOf(issued[i]) > 0 =>
              \A c \in ConstructionIds : Base26(c) < Base26(Id(issued[i]))
    /\ (DOMAIN functional_graph) \cap ConstructionIds = {}

C14_Witness ==
    /\ Returned
    /\ call = 2
    /\ Cardinality(ConstructionIds) = 3
    /\ \E i, o, f \in DOMAIN functional_graph :
          /\ written[i].as = "input"
          /\ written[o].as = "output"
          /\ written[f].as = "node"
          /\ written[f].closure # call

\* the identifiers below a record of module_tree, along the children maps
RECURSIVE Descendants(_)
Descendants(id) ==
    UNION {{c} \cup Descendants(c) : c \in Values(module_tree[id].children)}

\* C15: after construction every parameter identifier is lower than every
\* module identifier, and the identifier of every module record is lower than
\* the identifier of each record below it in module_tree.
C15_RegistrationOrder ==
    Idle =>
        /\ \A pid \in Values(param_to_id) :
              \A mid \in (DOMAIN module_tree) \cup Values(module_to_id) :
                  Base26(pid) < Base26(mid)
        /\ \A id \in DOMAIN module_tree :
              \A c \in Descendants(id) : Base26(id) < Base26(c)
        /\ \A m \in Reachable(model, {Root}) :
              \A c \in Reachable(model, {m}) \ {m} :
                  Base26(module_to_id[Mod(m)]) < Base26(module_to_id[Mod(c)])

\* a chain of three modules with two parameters
C15_Witness ==
    /\ Idle
    /\ Cardinality(Values(param_to_id)) = 2
    /\ \E id \in DOMAIN module_tree :
          \E c \in Values(module_tree[id].children) :
              module_tree[c].children # EmptyDict

\* C16: after a successful call the parent_module of the entry of every
\* operation is the identifier of the module whose forward executed it.
C16_ParentExecuted ==
    Returned =>
        \A id \in DOMAIN functional_graph :
            written[id].node \in DOMAIN autograd =>
                functional_graph[id].parent_module =
                    module_to_id[Mod(autograd[written[id].node].module)]

\* the keys of functional_graph written by lines 111-119 and by lines 128-135
InputEntries == {id \in DOMAIN functional_graph : written[id].as = "input"}
OutputEntries == {id \in DOMAIN functional_graph : written[id].as = "output"}

\* what created the result of the root's forward in the latest successful call
ResultCreator == ret.activations[module_to_id[Mod(Root)]].output

\* one input entry per supplied input, without dependencies or parent module
OneEntryPerInput ==
    /\ Cardinality(InputEntries) = Len(inputs)
    /\ \A i \in 1..Len(inputs) :
          \E id \in InputEntries :
              /\ written[id].node = inputs[i]
              /\ functional_graph[id].type[1] = "Input: "
              /\ functional_graph[id].dependencies = {}
              /\ functional_graph[id].parent_module = None

\* one output entry, under the highest key of functional_graph
OutputLast ==
    /\ Cardinality(OutputEntries) = 1
    /\ \A o \in OutputEntries :
          /\ functional_graph[o].type[1] = "Output: "
          /\ \A id \in (DOMAIN functional_graph) \ {o} : Base26(id) < Base26(o)

\* the output entry depends on exactly the entry of the operation that
\* produced the result
OutputDependsOnCreator ==
    /\ ResultCreator \in DOMAIN autograd
    /\ \A o \in OutputEntries :
          \E id \in EntriesOf(ResultCreator) :
              functional_graph[o].dependencies = {id}

\* C17: after a successful call functional_graph has one input entry per
\* supplied input, each without dependencies and without parent module, and
\* one output entry, which has the highest identifier and depends on exactly
\* the entry of the operation that produced the root's result.
C17_Boundary ==
    Returned => (OneEntryPerInput /\ OutputLast /\ OutputDependsOnCreator)

\* C18: the absent creator of a leaf output is never given a functional_graph
\* entry, and a call in which a hook met one does not return.
C18_UnrecognizedRaises ==
    /\ \A id \in DOMAIN functional_graph : written[id].node # NoneCreator
    /\ Returned =>
          \A k \in DOMAIN ret.activations : ret.activations[k].output # NoneCreator

\* the requests whose handler is being executed and calls into the Graph
InGraph == {r \in running : requests[r].endpoint # "index"}

\* no two handlers that call into the Graph are being executed at once, and
\* while a forward is in progress its request is the one being executed
HandlersExclusive ==
    /\ Cardinality(InGraph) <= 1
    /\ pc = "forward" => \E r \in running : requests[r].at = "forward"

\* C19: no two requests are inside the Graph at once, and when a request's
\* handler is about to call instrumented_forward or serialize, every forward
\* begun by an earlier request has ended and has removed its hooks.
C19_NoOverlap ==
    /\ HandlersExclusive
    /\ \A r \in InGraph :
          requests[r].at = "handler" =>
              /\ pc = "idle"
              /\ \A m \in Mods : forward_hooks[m] = <<>>

\* C20: every entry of the functional_graph a successful call returns was
\* written during that call by that call's own closure; the identifiers
\* its allocator drew are pairwise distinct and no two entries describe the
\* same node.
C20_OwnWritesOnly ==
    Returned =>
        /\ \A id \in DOMAIN functional_graph :
              /\ written[id].call = call
              /\ written[id].closure = call
        /\ \A i, j \in 1..Len(issued) :
              (i # j /\ CallOf(issued[i]) = call /\ CallOf(issued[j]) = call)
                  => Id(issued[i]) # Id(issued[j])
        /\ \A a, b \in DOMAIN functional_graph :
              a # b => written[a].node # written[b].node

\* the same with no hook of an earlier call attached during the call
C20_OwnWritesOnlyWithoutLeak ==
    (\A m \in Mods : forward_hooks[m] = <<>>) => C20_OwnWritesOnly
====
